---- MODULE Spec2Model ----
(***************************************************************************)
(* Health economic discrete-event simulation (he_model_oo.py).             *)
(*                                                                         *)
(* One Model instance owns a SimPy environment (clock `now`, event queue   *)
(* ordered by (time, priority, event id)), a generator process that        *)
(* creates n_patients patients at t = 0 and one set_care_pathway process   *)
(* per patient.  Every step of the environment pops the first event of     *)
(* the queue and resumes the process waiting for it, which runs up to its  *)
(* next `yield` (or to its end).                                           *)
(*                                                                         *)
(* Units.  Simulated time is counted in ticks, TicksPerDay ticks to the    *)
(* day, so that sampled durations have a fractional part and int(duration) *)
(* truncates.  prob_death and the uniform draws are in hundredths.         *)
(* Utilities are kept as the exact product duration * weight, in units of  *)
(* 1 / (10 * TicksPerDay * days_per_year).                                 *)
(***************************************************************************)
EXTENDS Integers, Sequences, FiniteSets, TLC

\* ---- configuration: class g (he_model_oo.py:39-50) ----
max_cycles == 2
n_patients == 2
prob_death == 15
c_treatment_init == 5000
c_treatment_daily == 250
c_followup == 3500
u_treatment == 7
u_followup == 8

\* ---- resolution of the sampled values ----
TicksPerDay == 2
\* Gamma draws (durations, in ticks): a wait that ends at once, and a day and a
\* fraction of a day.
Durations == {0, TicksPerDay + 1}
\* random.uniform(0, 1) returns a value in [0, 1): the largest draw, in hundredths.
MaxUniform == 99

MaxDuration == CHOOSE d \in Durations : \A e \in Durations : e <= d
\* simpy.core.Infinity: later than every time a wait can end.
sim_duration == (max_cycles + 1) * MaxDuration + 1

URGENT == 0
NORMAL == 1

VARIABLES
    g,               \* the attributes of class g that the runs are configured by
    run,             \* the index `run` of the script's loop over the runs
    pc,              \* position of the script for the current Model: "new", "running", "stopped"
    now,             \* env.now
    queue,           \* env._queue: set of scheduled events
    eid,             \* env._eid: number of events scheduled so far
    patient_counter, \* Model.patient_counter
    run_number,      \* Model.run_number
    patients,        \* the Patient objects, by patient_id
    at,              \* where each process is suspended; at[0] is generate_patients
    wait,            \* the local time_to_death / time_to_full_cycle / time_in_folllowup
    output_list,     \* the module-level output_list
    last,            \* history: the event popped by the last step
    waits,           \* history: per patient, the durations of the waits that have ended
    tape,            \* history: the uniform and gamma draws, in the order they were taken
    mode,            \* "record": draws are free; "replay": draws are read back from tape
    tpos,            \* replay position in tape
    recorded         \* history: the output_list of the execution that was recorded

vars == <<g, run, pc, now, queue, eid, patient_counter, run_number, patients, at, wait,
          output_list, last, waits, tape, mode, tpos, recorded>>

histVars == <<tape, mode, tpos, recorded>>

\* Uniform draws (hundredths): the smallest draw, 0, and the smallest draw that is
\* not below g.prob_death or, where there is none, the largest draw.
UniformDraws ==
    {0, IF g.prob_death \in 1..MaxUniform THEN g.prob_death ELSE MaxUniform}

\* class g as the script defines it (with the model's max_cycles and n_patients).
Defaults ==
    [max_cycles |-> max_cycles, n_patients |-> n_patients, prob_death |-> prob_death,
     number_of_runs |-> 1]

NoEvent == [time |-> 0, prio |-> URGENT, eid |-> 0 - 1, kind |-> "none", pat |-> 0]

\* ---- SimPy environment ----

\* Heap order of env._queue: (time, priority, event id).
BeforeUnsequenced(e, f) ==
    \/ e.time < f.time
    \/ e.time = f.time /\ e.prio <= f.prio

BeforeLifo(e, f) ==
    \/ e.time < f.time
    \/ e.time = f.time /\ e.prio < f.prio
    \/ e.time = f.time /\ e.prio = f.prio /\ e.eid > f.eid

Before(e, f) ==
    \/ e.time < f.time
    \/ e.time = f.time /\ e.prio < f.prio
    \/ e.time = f.time /\ e.prio = f.prio /\ e.eid < f.eid

\* e is the event env.step() pops from q: the least of the heap.
NextEvent(e, q) == e \in q /\ \A f \in q \ {e} : Before(e, f)

\* env.schedule(event, priority, delay) called at time t, taking the n-th event id
\* from now on.
EventAbsolute(t, delay, prio, n, kind, p) ==
    [time |-> delay, prio |-> prio, eid |-> eid + n, kind |-> kind, pat |-> p]

Event(t, delay, prio, n, kind, p) ==
    [time |-> t + delay, prio |-> prio, eid |-> eid + n, kind |-> kind, pat |-> p]

\* ---- class Patient ----
PatientZeroBased(id) ==
    [patient_id |-> id - 1, state |-> "Alive", treatment_cycles |-> 0, cost |-> 0,
     utility |-> 0]

Patient(id) ==
    [patient_id |-> id, state |-> "Alive", treatment_cycles |-> 0, cost |-> 0, utility |-> 0]

\* ---- helper methods of Model ----
increment_cost_each_cycle(patient, duration) ==
    (duration \div TicksPerDay) * c_treatment_daily + c_treatment_init

increment_cost_running(patient, duration) ==
    patient.cost + (duration \div TicksPerDay) * c_treatment_daily
        + (IF patient.treatment_cycles = 1 THEN c_treatment_init ELSE 0)

increment_cost(patient, duration) ==
    (duration \div TicksPerDay) * c_treatment_daily
        + (IF patient.treatment_cycles = 1 THEN c_treatment_init ELSE 0)

increment_utility(duration, utility) == duration * utility

followup_cost_added(patient) == patient.cost + c_followup

followup_cost(patient) == c_followup

save_data_twice(patient, phase) ==
    LET rec == [patient_id |-> patient.patient_id, state |-> patient.state,
                treatment_cycle |-> patient.treatment_cycles, phase |-> phase,
                cost |-> patient.cost, utility |-> patient.utility,
                run_number |-> run_number, simulation_time |-> now']
    IN Append(Append(output_list, rec), rec)

save_data(patient, phase) ==
    Append(output_list,
           [patient_id |-> patient.patient_id, state |-> patient.state,
            treatment_cycle |-> patient.treatment_cycles, phase |-> phase,
            cost |-> patient.cost, utility |-> patient.utility,
            run_number |-> run_number, simulation_time |-> now'])

\* ---- random draws ----
\* random.uniform(0, 1) and np.random.gamma(shape, scale, 1): the k-th draw of a step.
random_uniform(u, k) == mode = "replay" => (tpos + k <= Len(tape) /\ u = tape[tpos + k])

random_gamma(d, k) == mode = "replay" => (tpos + k <= Len(tape) /\ d = tape[tpos + k])

Drawn(vals) ==
    IF mode = "record"
    THEN tape' = tape \o vals /\ tpos' = tpos
    ELSE tape' = tape /\ tpos' = tpos + Len(vals)

\* ---- set_care_pathway ----
TreatmentGuardNoDeathCheck(patient) == patient.treatment_cycles < g.max_cycles

TreatmentGuardOffByOne(patient) ==
    patient.treatment_cycles <= g.max_cycles /\ patient.state = "Alive"

\* while patient.treatment_cycles < g.max_cycles and patient.state == 'Alive'
TreatmentGuard(patient) ==
    patient.treatment_cycles < g.max_cycles /\ patient.state = "Alive"

FollowupGuardByCycles(patient) == patient.treatment_cycles = g.max_cycles

FollowupGuardAlways(patient) == TRUE

\* if patient.state == 'Alive'
FollowupGuard(patient) == patient.state = "Alive"

\* if rand < g.prob_death
DiesInclusive(rand) == rand <= g.prob_death

DiesAtDefault(rand) == rand < prob_death

Dies(rand) == rand < g.prob_death

\* The attributes of a process's own Patient object after its assignments.
SetPatientShared(id, patient) ==
    [p \in DOMAIN patients |-> [patient EXCEPT !.patient_id = p]]

SetPatient(id, patient) == [patients EXCEPT ![id] = patient]

\* The process of patient id runs on from the loop head to its next yield or to its
\* end; patient is its Patient object as the resumed code left it.
Proceed(id, patient, q) ==
    \/ /\ TreatmentGuard(patient)
       /\ \E u \in UniformDraws, d \in Durations :
            /\ random_uniform(u, 0)
            /\ random_gamma(d, 1)
            /\ Drawn(<<u, d>>)
            /\ patients' = SetPatient(id,
                              [patient EXCEPT !.treatment_cycles = @ + 1,
                                              !.state = IF Dies(u) THEN "Dead" ELSE @])
            /\ at' = [at EXCEPT ![id] = IF Dies(u) THEN "death" ELSE "cycle"]
            /\ wait' = [wait EXCEPT ![id] = d]
            /\ queue' = q \cup {Event(now', d, NORMAL, 0, "timeout", id)}
            /\ eid' = eid + 1
    \/ /\ ~TreatmentGuard(patient)
       /\ FollowupGuard(patient)
       /\ \E d \in Durations :
            /\ random_gamma(d, 0)
            /\ Drawn(<<d>>)
            /\ patients' = SetPatient(id, patient)
            /\ at' = [at EXCEPT ![id] = "followup"]
            /\ wait' = [wait EXCEPT ![id] = d]
            /\ queue' = q \cup {Event(now', d, NORMAL, 0, "timeout", id)}
            /\ eid' = eid + 1
    \/ /\ ~TreatmentGuard(patient)
       /\ ~FollowupGuard(patient)
       /\ patients' = SetPatient(id, patient)
       /\ at' = [at EXCEPT ![id] = "ended"]
       /\ queue' = q \cup {Event(now', 0, NORMAL, 0, "ended", id)}
       /\ eid' = eid + 1
       /\ UNCHANGED <<wait, tape, tpos>>

\* Model.__init__(run_number): the attributes of a new Model.
ModelIgnoringRun(run_arg) == [patient_counter |-> 0, run_number |-> 0]

Model(run_arg) == [patient_counter |-> 0, run_number |-> run_arg]

\* ---- initial state: Model(run) for the first run of the script, class g as cfg ----
InitWith(cfg) ==
    /\ g = cfg
    /\ run = 0
    /\ pc = "new"
    /\ now = 0
    /\ queue = {}
    /\ eid = 0
    /\ patient_counter = Model(0).patient_counter
    /\ run_number = Model(0).run_number
    /\ patients = <<>>
    /\ at = (0 :> "init")
    /\ wait = <<>>
    /\ output_list = <<>>
    /\ last = NoEvent
    /\ waits = <<>>
    /\ tape = <<>>
    /\ mode = "record"
    /\ tpos = 1
    /\ recorded = <<>>

Init == InitWith(Defaults)

\* ---- Model.run: start the generator process, schedule the `until` event ----
Run ==
    /\ pc = "new"
    /\ now < sim_duration
    /\ pc' = "running"
    /\ queue' = {Event(now, 0, URGENT, 0, "init", 0),
                 Event(now, sim_duration - now, URGENT, 1, "until", 0)}
    /\ eid' = eid + 2
    /\ UNCHANGED <<g, run, now, patient_counter, run_number, patients, at, wait,
                   output_list, last, waits, histVars>>

\* A step of env.run pops the head of the queue and advances the clock.
Pop(e) ==
    /\ pc = "running"
    /\ queue # {}
    /\ NextEvent(e, queue)
    /\ now' = e.time
    /\ last' = e

\* The delay of the generator's own timeout, yield self.env.timeout(0).
generator_delay_late == MaxDuration

generator_delay == 0

\* generate_patients up to `yield self.env.timeout(0)`
GeneratorStart ==
    \E e \in queue :
        /\ Pop(e)
        /\ e.kind = "init" /\ e.pat = 0
        /\ at' = [at EXCEPT ![0] = "timeout"]
        /\ queue' = (queue \ {e}) \cup {Event(now', generator_delay, NORMAL, 0,
                                               "timeout", 0)}
        /\ eid' = eid + 1
        /\ UNCHANGED <<g, run, pc, patient_counter, run_number, patients, wait,
                       output_list, waits, histVars>>

\* generate_patients from the yield to its end: the whole loop runs in one step.
GeneratePatients ==
    \E e \in queue :
        /\ Pop(e)
        /\ e.kind = "timeout" /\ e.pat = 0
        /\ LET n == IF now' < sim_duration /\ patient_counter < g.n_patients
                    THEN g.n_patients - patient_counter ELSE 0
               ids == (patient_counter + 1)..(patient_counter + n)
           IN /\ run_number' = run_number + 1
              /\ patient_counter' = patient_counter + n
              /\ patients' = [i \in ids |-> Patient(i)]
              /\ at' = [i \in {0} \cup ids |-> IF i = 0 THEN "ended" ELSE "init"]
              /\ wait' = [i \in ids |-> 0]
              /\ waits' = [i \in ids |-> <<>>]
              /\ queue' = (queue \ {e})
                            \cup {Event(now', 0, URGENT, (i - patient_counter) - 1, "init", i) :
                                    i \in ids}
                            \cup {Event(now', 0, NORMAL, n, "ended", 0)}
              /\ eid' = eid + n + 1
        /\ UNCHANGED <<g, run, pc, output_list, histVars>>

\* set_care_pathway from its start to the first yield
PatientStart ==
    \E e \in queue :
        /\ Pop(e)
        /\ e.kind = "init" /\ e.pat # 0
        /\ Proceed(e.pat, patients[e.pat], queue \ {e})
        /\ UNCHANGED <<g, run, pc, patient_counter, run_number, output_list, waits,
                       mode, recorded>>

\* set_care_pathway resumed after a treatment wait (death or full cycle)
TreatmentResume ==
    \E e \in queue :
        /\ Pop(e)
        /\ e.kind = "timeout" /\ e.pat # 0
        /\ at[e.pat] \in {"death", "cycle"}
        /\ LET p0 == patients[e.pat]
               p1 == [p0 EXCEPT !.cost = increment_cost(p0, wait[e.pat])]
               p2 == [p1 EXCEPT !.utility = increment_utility(wait[e.pat], u_treatment)]
           IN /\ output_list' = save_data(p2, "treatment")
              /\ waits' = [waits EXCEPT ![e.pat] = Append(@, wait[e.pat])]
              /\ Proceed(e.pat, p2, queue \ {e})
        /\ UNCHANGED <<g, run, pc, patient_counter, run_number, mode, recorded>>

\* set_care_pathway resumed after the followup wait, to its end
FollowupResume ==
    \E e \in queue :
        /\ Pop(e)
        /\ e.kind = "timeout" /\ e.pat # 0
        /\ at[e.pat] = "followup"
        /\ LET p0 == patients[e.pat]
               p1 == [p0 EXCEPT !.utility = increment_utility(wait[e.pat], u_followup)]
               p2 == [p1 EXCEPT !.cost = followup_cost(p1)]
           IN /\ output_list' = save_data(p2, "followup")
              /\ waits' = [waits EXCEPT ![e.pat] = Append(@, wait[e.pat])]
              /\ patients' = SetPatient(e.pat, p2)
        /\ at' = [at EXCEPT ![e.pat] = "ended"]
        /\ queue' = (queue \ {e}) \cup {Event(now', 0, NORMAL, 0, "ended", e.pat)}
        /\ eid' = eid + 1
        /\ UNCHANGED <<g, run, pc, patient_counter, run_number, wait, histVars>>

\* The event of a process that has ended: nothing waits for it.
ProcessEnded ==
    \E e \in queue :
        /\ Pop(e)
        /\ e.kind = "ended"
        /\ queue' = queue \ {e}
        /\ UNCHANGED <<g, run, pc, eid, patient_counter, run_number, patients, at, wait,
                       output_list, waits, histVars>>

\* The `until` event: env.run returns.
Stop ==
    \E e \in queue :
        /\ pc = "running"
        /\ NextEvent(e, queue)
        /\ e.kind = "until"
        /\ now' = e.time
        /\ last' = e
        /\ queue' = queue \ {e}
        /\ pc' = "stopped"
        /\ UNCHANGED <<g, run, eid, patient_counter, run_number, patients, at, wait,
                       output_list, waits, histVars>>

Next ==
    \/ Run
    \/ GeneratorStart
    \/ GeneratePatients
    \/ PatientStart
    \/ TreatmentResume
    \/ FollowupResume
    \/ ProcessEnded
    \/ Stop

Spec == Init /\ [][Next]_vars

\* env.run never idles while an event is pending, and Model.run is called right
\* after the Model is made.
LiveSpec == Spec /\ WF_vars(Next)

\* The script executed a second time, with the same class g: seed(123) rewinds
\* the stream of random, output_list is the empty list again and the loop makes
\* Model(0) and runs it.  numpy's stream is fed the gamma draws of the first
\* execution.  The first execution's output_list is kept in recorded.
Rerun ==
    /\ pc = "stopped"
    /\ run + 1 >= g.number_of_runs
    /\ mode = "record"
    /\ run' = 0
    /\ pc' = "new"
    /\ now' = 0
    /\ queue' = {}
    /\ eid' = 0
    /\ patient_counter' = Model(0).patient_counter
    /\ run_number' = Model(0).run_number
    /\ patients' = <<>>
    /\ at' = (0 :> "init")
    /\ wait' = <<>>
    /\ waits' = <<>>
    /\ last' = NoEvent
    /\ output_list' = <<>>
    /\ recorded' = output_list
    /\ mode' = "replay"
    /\ tpos' = 1
    /\ UNCHANGED <<g, tape>>

NextTwice == Next \/ Rerun

SpecTwice == Init /\ [][NextTwice]_vars

\* ---- the script run with other values of g's attributes ----
\* The defaults, the two ends of prob_death's range (the lower end with one patient
\* fewer: without deaths every patient takes every draw), and values outside the
\* ranges the attributes are meant to have.
Configs ==
    {Defaults,
     [Defaults EXCEPT !.prob_death = 0, !.n_patients = n_patients - 1],
     [Defaults EXCEPT !.prob_death = MaxUniform + 1],
     [Defaults EXCEPT !.prob_death = MaxUniform + 1 + prob_death],
     [Defaults EXCEPT !.max_cycles = 0],
     [Defaults EXCEPT !.n_patients = 0]}

InitConfigured == \E cfg \in Configs : InitWith(cfg)

SpecConfigured == InitConfigured /\ [][Next]_vars

\* ---- the script's loop over the runs: for run in range(g.number_of_runs) ----
\* The next iteration makes a new Model, with a new environment, and runs it; the
\* module-level output_list and the random streams carry on.
NextModel ==
    /\ pc = "stopped"
    /\ mode = "record"
    /\ run + 1 < g.number_of_runs
    /\ run' = run + 1
    /\ pc' = "new"
    /\ now' = 0
    /\ queue' = {}
    /\ eid' = 0
    /\ patient_counter' = Model(run + 1).patient_counter
    /\ run_number' = Model(run + 1).run_number
    /\ patients' = <<>>
    /\ at' = (0 :> "init")
    /\ wait' = <<>>
    /\ waits' = <<>>
    /\ last' = NoEvent
    /\ UNCHANGED <<g, output_list, histVars>>

\* Number of runs of the script when it is set to make several.
Replications == 2

\* Several runs of a small cohort: two patients, one treatment cycle.
RunsConfig ==
    [Defaults EXCEPT !.number_of_runs = Replications,
                     !.n_patients = 2, !.max_cycles = 1]

InitRuns == InitWith(RunsConfig)

NextRuns == Next \/ NextModel

SpecRuns == InitRuns /\ [][NextRuns]_vars

\* ======================= properties =======================

Created == DOMAIN patients

\* The records of patient p, in the order they were appended.
Recs(p) == SelectSeq(output_list, LAMBDA r : r.patient_id = p)

\* The process of p has ended and its last record closes its pathway: a death
\* record for a dead patient, the followup record for one still 'Alive'.
Settled(p) ==
    /\ at[p] = "ended"
    /\ Len(Recs(p)) > 0
    /\ LET r == Recs(p)[Len(Recs(p))]
       IN \/ patients[p].state = "Dead" /\ r.state = "Dead" /\ r.phase = "treatment"
          \/ patients[p].state = "Alive" /\ r.state = "Alive" /\ r.phase = "followup"

\* The stage of the pathway a patient is in.  The state field only tells 'Alive'
\* from 'Dead'; Followup and Completed are places of the patient's process: waiting
\* at the followup yield, and ended while still 'Alive'.
Stage(patient, a) ==
    IF patient.state = "Dead" /\ a \in {"death", "ended"} THEN "Dead"
    ELSE IF a = "followup" THEN "Followup"
    ELSE IF a = "ended" THEN "Completed"
    ELSE "Treatment"

\* C1: every run ends, with an empty event queue and all n_patients patients
\* created, and from then on every patient is Dead or Completed and none is in
\* treatment or followup: its process has ended, after a death record if its state
\* is 'Dead' and after the followup record if it is still 'Alive' (Completed).
C1_RunEndsDeadOrCompleted ==
    <>[](/\ pc = "stopped"
         /\ queue = {}
         /\ patient_counter = n_patients
         /\ Created = 1..n_patients
         /\ \A p \in Created :
               /\ Stage(patients[p], at[p]) \in {"Dead", "Completed"}
               /\ Settled(p))

C1_Witness ==
    /\ pc = "stopped"
    /\ queue = {}
    /\ Created = 1..n_patients
    /\ \E p \in Created : Stage(patients[p], at[p]) = "Dead" /\ Settled(p)
    /\ \E p \in Created : Stage(patients[p], at[p]) = "Completed" /\ Settled(p)

\* C2: one record per ended wait.  The i-th record of a patient is the record of
\* its cycle i (i <= max_cycles) or, as record max_cycles + 1, its followup record;
\* a death record or a followup record is the patient's last record; at the end of
\* the run a patient who died in cycle k has k records and a survivor max_cycles + 1.
C2_OneRecordPerBoundary ==
    \A p \in Created :
        LET r == Recs(p)
        IN /\ Len(r) = Len(waits[p])
           /\ \A i \in 1..Len(r) :
                /\ r[i].phase = "treatment" => i <= max_cycles /\ r[i].treatment_cycle = i
                /\ r[i].phase = "followup" =>
                       i = max_cycles + 1 /\ r[i].treatment_cycle = max_cycles
                /\ (r[i].state = "Dead" \/ r[i].phase = "followup") => i = Len(r)
           /\ pc = "stopped" =>
                IF patients[p].state = "Dead"
                THEN /\ Len(r) = patients[p].treatment_cycles
                     /\ r[Len(r)].state = "Dead"
                ELSE /\ Len(r) = max_cycles + 1
                     /\ r[Len(r)].phase = "followup"

C2_Witness ==
    /\ pc = "stopped"
    /\ \E p \in Created :
         /\ patients[p].state = "Dead"
         /\ patients[p].treatment_cycles = max_cycles
         /\ Len(Recs(p)) = max_cycles
    /\ \E p \in Created :
         /\ patients[p].state = "Alive"
         /\ Len(Recs(p)) = max_cycles + 1

\* C3: treatment_cycles of every patient and of every record is at most max_cycles.
C3_CyclesBounded ==
    /\ \A p \in Created : patients[p].treatment_cycles <= max_cycles
    /\ \A i \in 1..Len(output_list) : output_list[i].treatment_cycle <= max_cycles

C3_Witness ==
    /\ \E p \in Created : patients[p].treatment_cycles = max_cycles /\ at[p] = "ended"
    /\ \E i \in 1..Len(output_list) :
         output_list[i].treatment_cycle = max_cycles /\ output_list[i].phase = "followup"

StageStep(s, t) ==
    \/ s = t
    \/ s = "Treatment" /\ t \in {"Dead", "Followup"}
    \/ s = "Followup" /\ t = "Completed"

\* C4: a patient moves only Treatment -> Dead or Treatment -> Followup -> Completed;
\* its state field changes only from 'Alive' to 'Dead'.
C4_StagesMonotone ==
    [][\A p \in Created :
          p \in DOMAIN patients' =>
            /\ StageStep(Stage(patients[p], at[p]), Stage(patients'[p], at'[p]))
            /\ patients'[p].state # patients[p].state =>
                  patients[p].state = "Alive" /\ patients'[p].state = "Dead"]_vars

C4_Witness ==
    /\ \E p \in Created : Stage(patients[p], at[p]) = "Completed"
    /\ \E p \in Created : Stage(patients[p], at[p]) = "Dead" /\ at[p] = "ended"
                            /\ patients[p].treatment_cycles > 1

\* e was scheduled for an earlier time than f, or for the same time and before f.
ScheduledFirst(e, f) == e.time < f.time \/ (e.time = f.time /\ e.eid < f.eid)

\* C5: every step resumes the pending event that is first by (due time, order of
\* scheduling), and an event scheduled by the step is behind every pending one that
\* is due at the same time.
C5_ResumedInOrder ==
    [][pc = "running" =>
          /\ last' \in queue
          /\ \A f \in queue \ {last'} : ScheduledFirst(last', f)
          /\ \A e \in queue' \ queue : \A f \in queue : f.eid < e.eid]_vars

\* A patient resumed at time now > 0 has re-scheduled itself with zero delay while
\* another patient's wait, scheduled before, ends at that same time.
C5_Witness ==
    \E e, f \in queue :
        /\ e.kind = "timeout" /\ f.kind = "timeout"
        /\ e.pat # 0 /\ f.pat # 0 /\ e.pat # f.pat
        /\ e.time = now /\ f.time = now /\ now > 0
        /\ last.pat = e.pat /\ last.kind = "timeout"
        /\ wait[e.pat] = 0
        /\ f.eid < e.eid

\* C6: a second run with the same configuration and run number that is fed the
\* draws of the first appends the same records with the same field values in the
\* same order: while it runs its output_list is a prefix of the first run's, and
\* when it has ended the two are equal and it has taken exactly the first's draws.
C6_SameDrawsSameRecords ==
    mode = "replay" =>
        /\ Len(output_list) <= Len(recorded)
        /\ \A i \in 1..Len(output_list) : output_list[i] = recorded[i]
        /\ pc = "stopped" => (output_list = recorded /\ tpos = Len(tape) + 1)

\* A replayed run has ended after two patients were due at the same time, one died
\* and one reached followup.
C6_Witness ==
    /\ mode = "replay" /\ pc = "stopped"
    /\ Len(output_list) >= max_cycles + 2
    /\ \E i, j \in 1..Len(output_list) :
         /\ i # j
         /\ output_list[i].simulation_time = output_list[j].simulation_time
         /\ output_list[i].patient_id # output_list[j].patient_id
    /\ \E i \in 1..Len(output_list) : output_list[i].state = "Dead"
    /\ \E i \in 1..Len(output_list) : output_list[i].phase = "followup"

\* int(duration): whole days of a duration in ticks.
Days(d) == d \div TicksPerDay

\* C7: a treatment record's cost is floor(duration) * c_treatment_daily for the wait
\* that just ended, plus c_treatment_init exactly when its treatment_cycle is 1,
\* which is the patient's first record and no other.
C7_TreatmentCost ==
    \A p \in Created :
        LET r == Recs(p)
        IN \A i \in 1..Len(r) :
             r[i].phase = "treatment" =>
                /\ i <= Len(waits[p])
                /\ r[i].cost = Days(waits[p][i]) * c_treatment_daily
                                 + (IF r[i].treatment_cycle = 1 THEN c_treatment_init ELSE 0)
                /\ (r[i].treatment_cycle = 1) <=> (i = 1)

\* A patient with a first record after a wait with a fraction of a day and a
\* later treatment record after a wait of at least a day.
C7_Witness ==
    \E p \in Created :
        LET r == Recs(p)
        IN /\ Len(r) >= 2
           /\ r[2].phase = "treatment"
           /\ waits[p][1] % TicksPerDay # 0
           /\ Days(waits[p][2]) >= 1
           /\ r[2].cost = Days(waits[p][2]) * c_treatment_daily

\* C8 as stated (header comment, lines 13-15): every treatment record, whatever its
\* cycle, costs c_treatment_init + floor(duration) * c_treatment_daily.
C8_InitEveryCycle ==
    \A p \in Created :
        LET r == Recs(p)
        IN \A i \in 1..Len(r) :
             r[i].phase = "treatment" =>
                /\ i <= Len(waits[p])
                /\ r[i].cost = c_treatment_init + Days(waits[p][i]) * c_treatment_daily

\* C9: every followup record costs exactly c_followup.
C9_FollowupLumpsum ==
    \A i \in 1..Len(output_list) :
        output_list[i].phase = "followup" => output_list[i].cost = c_followup

\* A followup record after a wait of at least a day, of a patient whose last
\* treatment record had a cost of its own.
C9_Witness ==
    \E p \in Created :
        LET r == Recs(p)
        IN /\ Len(r) = max_cycles + 1
           /\ r[Len(r)].phase = "followup"
           /\ r[Len(r) - 1].cost > 0
           /\ Days(waits[p][Len(r)]) >= 1

RECURSIVE SumCost(_)
SumCost(r) == IF r = <<>> THEN 0 ELSE r[1].cost + SumCost(Tail(r))

RECURSIVE SumDays(_)
SumDays(w) == IF w = <<>> THEN 0 ELSE Days(w[1]) + SumDays(Tail(w))

TreatmentRecs(p) == SelectSeq(Recs(p), LAMBDA r : r.phase = "treatment")
FollowupRecs(p) == SelectSeq(Recs(p), LAMBDA r : r.phase = "followup")

\* C10: once a patient has a record, the costs of its records add up to
\* c_treatment_init, plus c_treatment_daily a whole day of each treatment wait, plus
\* c_followup if it has its followup record.
C10_CostSum ==
    \A p \in Created :
        Len(Recs(p)) > 0 =>
            /\ Len(Recs(p)) = Len(waits[p])
            /\ SumCost(Recs(p)) =
                 c_treatment_init
                 + c_treatment_daily
                     * SumDays(SubSeq(waits[p], 1, Len(TreatmentRecs(p))))
                 + (IF Len(FollowupRecs(p)) > 0 THEN c_followup ELSE 0)

\* The run has ended with a survivor whose treatment waits each lasted a day or
\* more and a patient who died in a later cycle than the first.
C10_Witness ==
    /\ pc = "stopped"
    /\ \E p \in Created :
         /\ Len(FollowupRecs(p)) = 1
         /\ \A i \in 1..max_cycles : Days(waits[p][i]) >= 1
    /\ \E p \in Created :
         /\ patients[p].state = "Dead"
         /\ Len(Recs(p)) > 1
         /\ Days(waits[p][Len(Recs(p))]) >= 1

\* prob_death = 1, in hundredths.
CertainDeath == MaxUniform + 1

\* C11: with prob_death = 0 no patient is ever Dead, no record is a death record,
\* and at the end of the run every patient has max_cycles treatment records and
\* then its followup record.
C11_NoDeathAtZero ==
    g.prob_death = 0 =>
        /\ \A p \in Created : patients[p].state = "Alive"
        /\ \A i \in 1..Len(output_list) : output_list[i].state = "Alive"
        /\ pc = "stopped" =>
             /\ Created = 1..g.n_patients
             /\ \A p \in Created :
                  /\ Len(Recs(p)) = g.max_cycles + 1
                  /\ \A i \in 1..g.max_cycles :
                       Recs(p)[i].phase = "treatment" /\ Recs(p)[i].treatment_cycle = i
                  /\ Recs(p)[g.max_cycles + 1].phase = "followup"

\* The run has ended with prob_death = 0 after uniform draws of 0 (the first
\* draw of the run) and of the largest value.
C11_Witness ==
    /\ g.prob_death = 0
    /\ pc = "stopped"
    /\ Len(output_list) = g.n_patients * (g.max_cycles + 1)
    /\ tape[1] = 0
    /\ \E i \in 1..Len(tape) : tape[i] = MaxUniform

\* C12: with prob_death = 1 every record is a death record of cycle 1 in phase
\* treatment, no patient has more than one record, and at the end of the run
\* every patient has exactly one.
C12_AllDieInCycleOne ==
    g.prob_death = CertainDeath =>
        /\ \A i \in 1..Len(output_list) :
             /\ output_list[i].phase = "treatment"
             /\ output_list[i].treatment_cycle = 1
             /\ output_list[i].state = "Dead"
        /\ \A p \in Created : Len(Recs(p)) <= 1 /\ patients[p].treatment_cycles <= 1
        /\ pc = "stopped" =>
             /\ Created = 1..g.n_patients
             /\ \A p \in Created : Len(Recs(p)) = 1 /\ patients[p].state = "Dead"

\* The run has ended with prob_death = 1 after the largest uniform draw (the first
\* draw of the run) and a draw of 0.
C12_Witness ==
    /\ g.prob_death = CertainDeath
    /\ pc = "stopped"
    /\ Len(output_list) = g.n_patients
    /\ tape[1] = MaxUniform
    /\ tape[3] = 0

\* The bounds the attributes of g are meant to keep.
ValidConfiguration(cfg) ==
    /\ cfg.max_cycles > 0
    /\ cfg.prob_death \in 0..CertainDeath
    /\ cfg.n_patients > 0
    /\ cfg.number_of_runs >= 1

\* C15 as stated: with an attribute of g out of its bounds the run fails before a
\* patient is created or a record appended (and so never runs to its end).
C15_InvalidConfigurationFails ==
    ~ValidConfiguration(g) =>
        /\ patients = <<>>
        /\ output_list = <<>>
        /\ pc # "stopped"

\* C13: the generator creates the patients 1..n_patients, each id once, all at
\* time 0; the patients' processes take their first step at time 0, in ascending
\* order of patient_id, and the clock passes 0 only when all have.
C13_CohortStartsAtZero ==
    [][/\ Created' # Created =>
            /\ now' = 0
            /\ Created = {}
            /\ Created' = 1..g.n_patients
            /\ patient_counter' = g.n_patients
            /\ {patients'[p].patient_id : p \in Created'} = 1..g.n_patients
            /\ \A e \in queue' : e.kind = "init" => e.time = 0
       /\ \A p \in Created \cap Created' :
            (at[p] = "init" /\ at'[p] # "init") =>
                /\ now' = 0
                /\ \A q \in Created : q < p => at[q] # "init"
       /\ now' > 0 => \A p \in Created' : at'[p] # "init"]_vars

\* The last of the patients has just taken its first step, at time 0.
C13_Witness ==
    /\ pc = "running"
    /\ now = 0
    /\ Created = 1..n_patients
    /\ last.kind = "init" /\ last.pat = n_patients
    /\ \A p \in Created : at[p] # "init"

\* C14: a followup record is a patient's record max_cycles + 1, after max_cycles
\* treatment records with state 'Alive'; it has treatment_cycle = max_cycles and a
\* state that is not 'Dead'.  At the end of the run a patient has a followup record
\* exactly if it survived all max_cycles cycles, and a dead patient has none.
C14_FollowupIffSurvived ==
    \A p \in Created :
        LET r == Recs(p)
        IN /\ \A i \in 1..Len(r) :
                r[i].phase = "followup" =>
                    /\ r[i].treatment_cycle = g.max_cycles
                    /\ r[i].state # "Dead"
                    /\ i = g.max_cycles + 1
                    /\ \A j \in 1..(i - 1) :
                         r[j].phase = "treatment" /\ r[j].state = "Alive"
           /\ Len(FollowupRecs(p)) <= 1
           /\ patients[p].state = "Dead" => Len(FollowupRecs(p)) = 0
           /\ pc = "stopped" =>
                (Len(FollowupRecs(p)) = 1 <=>
                    /\ Len(TreatmentRecs(p)) = g.max_cycles
                    /\ \A j \in 1..Len(TreatmentRecs(p)) : TreatmentRecs(p)[j].state = "Alive")

\* The run has ended with a patient who died in the last cycle (and has no
\* followup record) and a patient with a followup record.
C14_Witness ==
    /\ pc = "stopped"
    /\ \E p \in Created :
         /\ patients[p].state = "Dead"
         /\ patients[p].treatment_cycles = max_cycles
         /\ Len(FollowupRecs(p)) = 0
    /\ \E p \in Created : Len(FollowupRecs(p)) = 1

\* The records of list are in the order of their simulation_time.
TimeOrdered(list) ==
    \A i \in 1..(Len(list) - 1) : list[i].simulation_time <= list[i + 1].simulation_time

\* The records of patient p in list are those of cycle 1, 2, ... and then, last,
\* the followup record.
PathwayOrdered(list, p) ==
    LET r == SelectSeq(list, LAMBDA x : x.patient_id = p)
    IN \A i \in 1..Len(r) :
         /\ r[i].phase = "treatment" => r[i].treatment_cycle = i
         /\ r[i].phase = "followup" => i = Len(r) /\ i > 1

\* C16: the clock never goes back, the records of the run are appended in the
\* order of their simulation_time, and each patient's records in the order of its
\* cycles with the followup record last.
C16_ClockAndRecordsOrdered ==
    [][/\ now' >= now
       /\ TimeOrdered(output_list')
       /\ \A p \in Created' : PathwayOrdered(output_list', p)]_vars

\* Records of two patients alternate in the list, some at the same time and some
\* at a later time than the record before.
C16_Witness ==
    /\ now > 0
    /\ \E i \in 1..(Len(output_list) - 2) :
         /\ output_list[i].patient_id # output_list[i + 1].patient_id
         /\ output_list[i + 1].patient_id # output_list[i + 2].patient_id
         /\ output_list[i].simulation_time = output_list[i + 1].simulation_time
         /\ output_list[i + 1].simulation_time < output_list[i + 2].simulation_time

RECURSIVE SumSeq(_)
SumSeq(w) == IF w = <<>> THEN 0 ELSE w[1] + SumSeq(Tail(w))

\* C17: the simulation_time of a patient's k-th record is the sum of the first k
\* durations drawn for that patient.
C17_EventTimeIsSumOfWaits ==
    \A p \in Created :
        /\ Len(Recs(p)) = Len(waits[p])
        /\ \A k \in 1..Len(Recs(p)) :
             Recs(p)[k].simulation_time = SumSeq(SubSeq(waits[p], 1, k))

\* A patient has all its records, the last at a time > 0 after more than one wait
\* that took time, with a record of another patient between its first and last.
C17_Witness ==
    \E p \in Created :
        /\ Len(Recs(p)) = max_cycles + 1
        /\ waits[p][1] > 0 /\ waits[p][Len(waits[p])] > 0
        /\ \E i, j, k \in 1..Len(output_list) :
             /\ i < j /\ j < k
             /\ output_list[i].patient_id = p
             /\ output_list[j].patient_id # p
             /\ output_list[j].simulation_time > 0
             /\ output_list[k].patient_id = p

\* C18: a step changes the attributes (and the place and pending wait of the
\* process) of no patient but the one whose process the step resumes.
C18_OnlyOwnPatientChanges ==
    [][\A p \in Created \cap Created' :
          (patients'[p] # patients[p] \/ at'[p] # at[p] \/ wait'[p] # wait[p]) =>
              /\ last'.pat = p
              /\ last'.kind \in {"init", "timeout"}
              /\ \A q \in (Created \cap Created') \ {p} :
                   patients'[q] = patients[q] /\ at'[q] = at[q] /\ wait'[q] = wait[q]]_vars

\* A patient has just been resumed into its second cycle while another, dying in
\* its first, is still suspended.
C18_Witness ==
    \E p, q \in Created :
        /\ p # q
        /\ last.pat = p /\ last.kind = "timeout"
        /\ patients[p].treatment_cycles = 2 /\ patients[p].cost > 0
        /\ patients[q].treatment_cycles = 1 /\ patients[q].state = "Dead"
        /\ at[q] = "death" /\ patients[q].cost = 0

\* The records of patient p of the replication tagged k.
RecsOfRun(p, k) ==
    SelectSeq(output_list, LAMBDA x : x.patient_id = p /\ x.run_number = k)

\* C19: every replication starts from a new Model with clock 0, an empty queue and
\* no patients, numbers its patients from 1 and tags each record it appends with
\* its loop index + 1; the records of one (patient_id, run_number) are those of
\* one patient's pathway.
C19_ReplicationsTagged ==
    /\ [](/\ pc = "new" =>
               now = 0 /\ queue = {} /\ eid = 0 /\ patient_counter = 0 /\ patients = <<>>
          /\ \A i \in 1..Len(output_list) : output_list[i].run_number \in 1..(run + 1)
          /\ \A i, j \in 1..Len(output_list) :
               i < j => output_list[i].run_number <= output_list[j].run_number
          /\ \A k \in 1..(run + 1) : \A p \in 1..g.n_patients :
               LET r == RecsOfRun(p, k)
               IN /\ \A i \in 1..Len(r) :
                       /\ r[i].phase = "treatment" => r[i].treatment_cycle = i
                       /\ r[i].phase = "followup" => i = Len(r) /\ i = g.max_cycles + 1
                       /\ r[i].state = "Dead" => i = Len(r)
                  /\ (k <= run \/ pc = "stopped") => Len(r) > 0)
    /\ [][/\ Created' # Created /\ Created' # {} => Created' = 1..g.n_patients
          /\ Len(output_list') >= Len(output_list)
          /\ SubSeq(output_list', 1, Len(output_list)) = output_list
          /\ \A i \in (Len(output_list) + 1)..Len(output_list') :
               /\ output_list'[i].run_number = run' + 1
               /\ output_list'[i].patient_id = last'.pat]_vars

\* The last replication has ended; patient 1 died in the first replication and
\* reached followup in the last.
C19_Witness ==
    /\ pc = "stopped"
    /\ run >= 1 /\ run = g.number_of_runs - 1
    /\ Len(RecsOfRun(1, 1)) = 1
    /\ Len(RecsOfRun(1, run + 1)) = g.max_cycles + 1

====
